---- MODULE Spec2Model ----
(***************************************************************************)
(* Visitor management: the OCR field-extraction pipeline of                *)
(* client/src/lib/ocr.ts (extractIDCardText, extractLicensePlate and their *)
(* scorers), modelled as a state machine over the outcome of the OCR       *)
(* engine call; the registration modals that fill their forms from it;     *)
(* the server routes and storage that keep the registrations, the sessions *)
(* and the activity log; and the camera hook of the capture component.     *)
(* Strings are JavaScript strings; scores are IEEE 754 doubles, computed   *)
(* with the rounding the JavaScript engine applies.                        *)
(***************************************************************************)
EXTENDS Integers, Sequences, FiniteSets, TLC

VARIABLES
    pc,       \* position of the extraction call: "idle", "awaiting", "returned", "raised"
    fn,       \* the entry point that was called, or "none"
    ocr,      \* what Tesseract.recognize did: [kind, text]
    frame,    \* the locals of the call once the pipeline has run
    result,   \* the object the promise resolved to
    console,  \* whether the call reported an error with console.error
    probe,    \* a scorer applied on its own: [fn, line, score]
    calls,    \* extraction calls in flight together: call -> [pc, fn, ocr, result]
    modal,    \* a registration modal: its React state and its form values
    server,   \* the server: its tables, its sessions and the last response
    camera    \* a CameraCapture component and its useCamera hook

vars == <<pc, fn, ocr, frame, result, console, probe, calls, modal, server, camera>>

(***************************************************************************)
(* Arithmetic: JavaScript numbers                                          *)
(***************************************************************************)

(* Natural numbers of any size: little-endian sequences of limbs in base Base. *)
Base == 2^15

BNorm(a) ==
    LET hi == {i \in 1..Len(a) : a[i] # 0}
    IN  IF hi = {} THEN <<>> ELSE SubSeq(a, 1, CHOOSE i \in hi : \A j \in hi : j <= i)

RECURSIVE BAddC(_, _, _)
BAddC(a, b, c) ==
    IF a = <<>> /\ b = <<>> THEN (IF c = 0 THEN <<>> ELSE <<c>>)
    ELSE LET s == (IF a = <<>> THEN 0 ELSE Head(a)) + (IF b = <<>> THEN 0 ELSE Head(b)) + c
         IN  <<s % Base>> \o BAddC(IF a = <<>> THEN a ELSE Tail(a),
                                   IF b = <<>> THEN b ELSE Tail(b), s \div Base)

BAdd(a, b) == BAddC(a, b, 0)

RECURSIVE BMulSmallC(_, _, _)
BMulSmallC(a, k, c) ==
    IF a = <<>> THEN (IF c = 0 THEN <<>> ELSE <<c>>)
    ELSE <<(Head(a) * k + c) % Base>> \o BMulSmallC(Tail(a), k, (Head(a) * k + c) \div Base)

BMulSmall(a, k) == BNorm(BMulSmallC(a, k, 0))

BShiftLimb(a) == IF a = <<>> THEN a ELSE <<0>> \o a

RECURSIVE BMul(_, _)
BMul(a, b) ==
    IF b = <<>> \/ a = <<>> THEN <<>>
    ELSE BAdd(BMulSmall(a, Head(b)), BShiftLimb(BMul(a, Tail(b))))

(* Quotient and remainder of a by the small number d, from the most
   significant limb (i) down: <<quotient, remainder>> *)
RECURSIVE BDivSmallR(_, _, _, _, _)
BDivSmallR(a, d, i, r, acc) ==
    IF i = 0 THEN <<BNorm(acc), r>>
    ELSE BDivSmallR(a, d, i - 1, (r * Base + a[i]) % d, <<(r * Base + a[i]) \div d>> \o acc)

BDivSmall(a, d) == BDivSmallR(a, d, Len(a), 0, <<>>)

BShl(a, n) ==
    IF a = <<>> THEN a
    ELSE [i \in 1..(n \div 15) |-> 0] \o BMulSmall(a, 2^(n % 15))

BShr(a, n) ==
    IF n \div 15 >= Len(a) THEN <<>>
    ELSE BDivSmall(SubSeq(a, (n \div 15) + 1, Len(a)), 2^(n % 15))[1]

RECURSIVE BitLenSmall(_)
BitLenSmall(x) == IF x = 0 THEN 0 ELSE 1 + BitLenSmall(x \div 2)

BBitLen(a) == IF a = <<>> THEN 0 ELSE (Len(a) - 1) * 15 + BitLenSmall(a[Len(a)])

BOdd(a) == a # <<>> /\ a[1] % 2 = 1

(* a < b, for a and b without leading zero limbs *)
BLess(a, b) ==
    IF Len(a) # Len(b) THEN Len(a) < Len(b)
    ELSE \E i \in 1..Len(a) : a[i] < b[i] /\ \A j \in (i + 1)..Len(a) : a[j] = b[j]

(* IEEE 754 binary64, the finite non-negative values: m * 2^e with m = 0
   (and e = 0) or 2^52 <= m < 2^53. *)
DZero == [m |-> <<>>, e |-> 0]

(* q * 2^e with q of 53 or 54 bits (54 after rounding up carried out) *)
DPack(q, e) ==
    IF BBitLen(q) = 54 THEN [m |-> BShr(q, 1), e |-> e + 1] ELSE [m |-> q, e |-> e]

(* n of more than 53 bits is cut by s bits to q; h is n cut by s - 1 bits, its
   last bit is the first bit dropped.  Round to nearest, ties to even. *)
DRoundCut(n, e, sticky, s, q, h) ==
    DPack(IF BOdd(h) /\ (sticky \/ BShl(h, s - 1) # n \/ BOdd(q)) THEN BAdd(q, <<1>>) ELSE q,
          e + s)

DRoundLen(n, e, sticky, len) ==
    IF len <= 53 THEN [m |-> BShl(n, 53 - len), e |-> e - (53 - len)]
    ELSE DRoundCut(n, e, sticky, len - 53, BShr(n, len - 53), BShr(n, len - 54))

(* The double nearest to n * 2^e, where sticky tells that the exact value is
   above n * 2^e by less than 2^e (n then has more than 53 bits) *)
DRound(n, e, sticky) == IF n = <<>> THEN DZero ELSE DRoundLen(n, e, sticky, BBitLen(n))

DRoundQuotient(d) == DRound(d[1], -90, d[2] # 0)

(* The double nearest to the rational p / q (0 <= p < Base, 0 < q < Base):
   a decimal literal, or the quotient of two small integers *)
DFromQ(p, q) ==
    IF p = 0 THEN DZero ELSE DRoundQuotient(BDivSmall(BShl(<<p>>, 90), q))

DAddAt(x, y, e) == DRound(BAdd(BShl(x.m, x.e - e), BShl(y.m, y.e - e)), e, FALSE)

DAdd(x, y) ==
    IF x.m = <<>> THEN y
    ELSE IF y.m = <<>> THEN x
    ELSE DAddAt(x, y, IF x.e < y.e THEN x.e ELSE y.e)

DMul(x, y) ==
    IF x.m = <<>> \/ y.m = <<>> THEN DZero
    ELSE DRound(BMul(x.m, y.m), x.e + y.e, FALSE)

DLt(x, y) ==
    IF y.m = <<>> THEN FALSE
    ELSE IF x.m = <<>> THEN TRUE
    ELSE IF x.e # y.e THEN x.e < y.e
    ELSE BLess(x.m, y.m)

DLe(x, y) == x = y \/ DLt(x, y)

(* Math.min *)
DMin(x, y) == IF DLt(y, x) THEN y ELSE x

(* The number literals of ocr.ts *)
Zero == DZero
One  == DFromQ(1, 1)
P1   == DFromQ(1, 10)
P15  == DFromQ(15, 100)
P2   == DFromQ(2, 10)
P3   == DFromQ(3, 10)
P4   == DFromQ(4, 10)
P5   == DFromQ(5, 10)
P6   == DFromQ(6, 10)
P7   == DFromQ(7, 10)

(* score += bonus when cond *)
AddIf(cond, score, bonus) == IF cond THEN DAdd(score, bonus) ELSE score

(***************************************************************************)
(* Strings and regular expressions                                         *)
(***************************************************************************)

(* A JavaScript string as the sequence of its characters, and back *)
Chars(s) == [i \in 1..Len(s) |-> SubSeq(s, i, i)]

RECURSIVE Str(_)
Str(cs) == IF cs = <<>> THEN "" ELSE Head(cs) \o Str(Tail(cs))

StrEach(ls) == [i \in 1..Len(ls) |-> Str(ls[i])]

Upper == {"A","B","C","D","E","F","G","H","I","J","K","L","M",
          "N","O","P","Q","R","S","T","U","V","W","X","Y","Z"}
Lower == {"a","b","c","d","e","f","g","h","i","j","k","l","m",
          "n","o","p","q","r","s","t","u","v","w","x","y","z"}
Digit == {"0","1","2","3","4","5","6","7","8","9"}
Letter == Upper \cup Lower
Alnum == Letter \cup Digit
(* \w and \s of a JavaScript regular expression (the ASCII part) *)
Word == Alnum \cup {"_"}
Space == {" ", "\t", "\n", "\r"}

UpperOf ==
    [c \in Lower |->
        Chars("ABCDEFGHIJKLMNOPQRSTUVWXYZ")[
            CHOOSE i \in 1..26 : Chars("abcdefghijklmnopqrstuvwxyz")[i] = c]]

toUpperCase(cs) == [i \in 1..Len(cs) |-> IF cs[i] \in Lower THEN UpperOf[cs[i]] ELSE cs[i]]

(* String.prototype.trim *)
trim(cs) ==
    LET keep == {i \in 1..Len(cs) : cs[i] \notin Space}
    IN  IF keep = {} THEN <<>>
        ELSE SubSeq(cs, CHOOSE i \in keep : \A j \in keep : i <= j,
                        CHOOSE i \in keep : \A j \in keep : j <= i)

(* String.prototype.includes *)
includes(cs, sub) ==
    \E i \in 1..(Len(cs) - Len(sub) + 1) : SubSeq(cs, i, i + Len(sub) - 1) = sub

(* A regular expression is a sequence of items: a character class with a
   greedy quantifier {min,max} (max = -1: unbounded), \b, ^, $, or the start
   of an optional group (...)? made of the next n items. *)
In(set, min, max)    == [k |-> "cls", set |-> set, neg |-> FALSE, min |-> min, max |-> max]
NotIn(set, min, max) == [k |-> "cls", set |-> set, neg |-> TRUE, min |-> min, max |-> max]
WB     == [k |-> "wb"]
Bol    == [k |-> "bol"]
Eol    == [k |-> "eol"]
Opt(n) == [k |-> "opt", n |-> n]

InClass(c, item) == (c \in item.set) # item.neg

AtWordBoundary(cs, pos) ==
    (pos > 1 /\ cs[pos - 1] \in Word) # (pos <= Len(cs) /\ cs[pos] \in Word)

(* Number of characters of the class of item from pos on, at most item.max *)
RECURSIVE RunLen(_, _, _, _)
RunLen(cs, pos, item, n) ==
    IF pos + n > Len(cs) \/ n = item.max THEN n
    ELSE IF InClass(cs[pos + n], item) THEN RunLen(cs, pos, item, n + 1)
    ELSE n

Either(r, other) == IF r # 0 THEN r ELSE other

(* Backtracking match of items k.. of re at pos: the position after the match
   the engine finds first (a greedy quantifier gives way one character at a
   time), or 0 when there is none. *)
RECURSIVE MatchFrom(_, _, _, _)
RECURSIVE TryCounts(_, _, _, _, _)
MatchFrom(cs, re, pos, k) ==
    IF k > Len(re) THEN pos
    ELSE CASE re[k].k = "wb"  -> IF AtWordBoundary(cs, pos) THEN MatchFrom(cs, re, pos, k + 1) ELSE 0
           [] re[k].k = "bol" -> IF pos = 1 THEN MatchFrom(cs, re, pos, k + 1) ELSE 0
           [] re[k].k = "eol" -> IF pos = Len(cs) + 1 THEN MatchFrom(cs, re, pos, k + 1) ELSE 0
           [] re[k].k = "opt" -> Either(MatchFrom(cs, re, pos, k + 1),
                                        MatchFrom(cs, re, pos, k + 1 + re[k].n))
           [] re[k].k = "cls" -> TryCounts(cs, re, pos, k, RunLen(cs, pos, re[k], 0))

TryCounts(cs, re, pos, k, c) ==
    IF c < re[k].min THEN 0
    ELSE Either(MatchFrom(cs, re, pos + c, k + 1), TryCounts(cs, re, pos, k, c - 1))

(* RegExp.prototype.exec from position from: <<start, end>> of the leftmost
   match (end exclusive), <<0, 0>> when there is none *)
RECURSIVE exec(_, _, _)
RECURSIVE execAt(_, _, _, _)
exec(re, cs, from) ==
    IF from > Len(cs) + 1 THEN <<0, 0>> ELSE execAt(re, cs, from, MatchFrom(cs, re, from, 1))

execAt(re, cs, from, end) ==
    IF end # 0 THEN <<from, end>> ELSE exec(re, cs, from + 1)

(* RegExp.prototype.test *)
test(re, cs) == exec(re, cs, 1)[1] # 0

(* String.prototype.match, replace and split with a /g expression that
   matches at least one character; m is the next match from position from.
   The empty sequence of matches stands for null. *)
RECURSIVE matchAllFrom(_, _, _)
matchAllFrom(cs, re, m) ==
    IF m[1] = 0 THEN <<>>
    ELSE <<SubSeq(cs, m[1], m[2] - 1)>> \o matchAllFrom(cs, re, exec(re, cs, m[2]))

match(cs, re) == matchAllFrom(cs, re, exec(re, cs, 1))

RECURSIVE replaceFrom(_, _, _, _, _)
replaceFrom(cs, re, by, from, m) ==
    IF m[1] = 0 THEN SubSeq(cs, from, Len(cs))
    ELSE SubSeq(cs, from, m[1] - 1) \o by \o replaceFrom(cs, re, by, m[2], exec(re, cs, m[2]))

replace(cs, re, by) == replaceFrom(cs, re, by, 1, exec(re, cs, 1))

RECURSIVE splitFrom(_, _, _, _)
splitFrom(cs, re, from, m) ==
    IF m[1] = 0 THEN <<SubSeq(cs, from, Len(cs))>>
    ELSE <<SubSeq(cs, from, m[1] - 1)>> \o splitFrom(cs, re, m[2], exec(re, cs, m[2]))

split(cs, re) == splitFrom(cs, re, 1, exec(re, cs, 1))

(* Array.prototype.join *)
RECURSIVE join(_, _)
join(ls, sep) ==
    IF ls = <<>> THEN <<>>
    ELSE IF Len(ls) = 1 THEN ls[1]
    ELSE ls[1] \o sep \o join(Tail(ls), sep)

NonEmpty(cs) == Len(cs) > 0

(***************************************************************************)
(* extractIDCardText                                                       *)
(***************************************************************************)

(* text.split('\n').map(line => line.trim()).filter(line => line.length > 0) *)
trimEach(parts) == [i \in 1..Len(parts) |-> trim(parts[i])]

splitLines(text) == SelectSeq(trimEach(split(text, <<In({"\n"}, 1, 1)>>)), NonEmpty)

(* line.trim().replace(/[^\w\s.-]/g, '') *)
cleanLineOf(line) ==
    replace(trim(line), <<NotIn(Word \cup Space \cup {".", "-"}, 1, 1)>>, <<>>)

headerKeywords ==
    {Chars("IDENTITY"), Chars("CARD"), Chars("GOVERNMENT"), Chars("REPUBLIC"),
     Chars("ISSUED"), Chars("EXPIRES"), Chars("DOB"), Chars("DATE"), Chars("SEX"),
     Chars("MALE"), Chars("FEMALE"), Chars("ADDRESS"), Chars("SIGNATURE"),
     Chars("VALID")}

(* /^\d{1,2}\/\d{1,2}\/\d{4}$/ *)
datePattern ==
    <<Bol, In(Digit, 1, 2), In({"/"}, 1, 1), In(Digit, 1, 2), In({"/"}, 1, 1),
      In(Digit, 4, 4), Eol>>

(* Fault: the keywords are looked up in cleanLine, case-sensitively *)
isHeaderOrNoiseCaseSensitive(cleanLine, upperLine) ==
    \/ Len(cleanLine) < 3
    \/ Len(cleanLine) > 50
    \/ \E kw \in headerKeywords : includes(cleanLine, kw)
    \/ test(datePattern, upperLine)
    \/ test(<<Bol, NotIn(Alnum, 0, -1), Eol>>, cleanLine)

(* The condition under which the filter skips a line *)
isHeaderOrNoise(cleanLine, upperLine) ==
    \/ Len(cleanLine) < 3
    \/ Len(cleanLine) > 50
    \/ \E kw \in headerKeywords : includes(upperLine, kw)
    \/ test(datePattern, upperLine)
    \/ test(<<Bol, NotIn(Alnum, 0, -1), Eol>>, cleanLine)

(* One round of the filter loop: what the line adds to meaningfulLines *)
keepLine(cleanLine) ==
    IF isHeaderOrNoise(cleanLine, toUpperCase(cleanLine)) THEN <<>> ELSE <<cleanLine>>

RECURSIVE filterLines(_)
filterLines(lines) ==
    IF lines = <<>> THEN <<>>
    ELSE keepLine(cleanLineOf(Head(lines))) \o filterLines(Tail(lines))

wordsOf(line) == SelectSeq(split(line, <<In(Space, 1, -1)>>), NonEmpty)

StartsUpper(w) == test(<<Bol, In(Upper, 1, 1)>>, w)

nameScoreSum(line, words) ==
    AddIf(Len(line) >= 5 /\ Len(line) <= 40,
          DAdd(AddIf(Len(words) >= 2 /\ Len(words) <= 4,
                     DAdd(Zero, DMul(DFromQ(Len(match(line, <<In(Letter \cup Space, 1, 1)>>)),
                                            Len(line)),
                                     P4)),
                     P3),
               DMul(DFromQ(Len(SelectSeq(words, StartsUpper)), Len(words)), P2)),
          P1)

calculateNameScore(line) ==
    IF ~test(<<In(Letter, 1, 1)>>, line) THEN Zero
    ELSE DMin(nameScoreSum(line, wordsOf(line)), One)

idScoreSum(line, hasNumbers, hasLetters, cleanLine) ==
    AddIf(Len(cleanLine) >= 6 /\ Len(cleanLine) <= 15,
          DAdd(AddIf(hasLetters /\ hasNumbers, AddIf(hasNumbers, Zero, P4), P2),
               DMul(DFromQ(Len(cleanLine), Len(line)), P3)),
          P1)

(* Fault: the score is returned without Math.min(score, 1) *)
idScoreOfUnclamped(line, hasNumbers, hasLetters) ==
    IF ~hasNumbers /\ ~hasLetters THEN Zero
    ELSE idScoreSum(line, hasNumbers, hasLetters, replace(line, <<NotIn(Alnum, 1, 1)>>, <<>>))

idScoreOf(line, hasNumbers, hasLetters) ==
    IF ~hasNumbers /\ ~hasLetters THEN Zero
    ELSE DMin(idScoreSum(line, hasNumbers, hasLetters,
                         replace(line, <<NotIn(Alnum, 1, 1)>>, <<>>)),
              One)

calculateIdScore(line) ==
    idScoreOf(line, test(<<In(Digit, 1, 1)>>, line), test(<<In(Letter, 1, 1)>>, line))

(* The candidate a loop keeps: the line and its score, '' and 0 at first *)
NoCandidate == [line |-> <<>>, score |-> Zero]

(* Fault: the acceptance threshold is not tested *)
betterNoThreshold(best, line, score, threshold) ==
    IF DLt(best.score, score) THEN [line |-> line, score |-> score] ELSE best

(* Fault: the first line above the threshold is kept, not the best one *)
betterFirst(best, line, score, threshold) ==
    IF best.line = <<>> /\ DLt(threshold, score) THEN [line |-> line, score |-> score] ELSE best

(* Fault: a line that equals the best score replaces the candidate (>=) *)
betterLast(best, line, score, threshold) ==
    IF DLe(best.score, score) /\ DLt(threshold, score)
    THEN [line |-> line, score |-> score]
    ELSE best

(* if (score > bestScore && score > threshold) the line becomes the candidate *)
better(best, line, score, threshold) ==
    IF DLt(best.score, score) /\ DLt(threshold, score)
    THEN [line |-> line, score |-> score]
    ELSE best

(* The loop over meaningfulLines that keeps the best name candidate *)
RECURSIVE nameLoop(_, _)
nameLoop(lines, best) ==
    IF lines = <<>> THEN best
    ELSE nameLoop(Tail(lines), better(best, Head(lines), calculateNameScore(Head(lines)), P7))

(* The loop that keeps the best ID candidate, skipping the name line *)
RECURSIVE idLoop(_, _, _)
idLoop(lines, bestNameCandidate, best) ==
    IF lines = <<>> THEN best
    ELSE IF Head(lines) = bestNameCandidate THEN idLoop(Tail(lines), bestNameCandidate, best)
    ELSE idLoop(Tail(lines), bestNameCandidate,
                better(best, Head(lines), calculateIdScore(Head(lines)), P6))

(* bestNameCandidate.replace(/\s+/g, ' ').trim() *)
formatName(cand) == trim(replace(cand, <<In(Space, 1, -1)>>, <<" ">>))

(* Fault: the second expression is /[^A-Z]/g and drops the digits too *)
formatIdLettersOnly(cand) ==
    replace(replace(cand, <<In(Space, 1, -1)>>, <<>>), <<NotIn(Upper, 1, 1)>>, <<>>)

(* bestIdCandidate.replace(/\s+/g, '').replace(/[^A-Z0-9]/g, '') *)
formatId(cand) ==
    replace(replace(cand, <<In(Space, 1, -1)>>, <<>>), <<NotIn(Upper \cup Digit, 1, 1)>>, <<>>)

(* /\b[A-Z][a-z]+\s+[A-Z][a-z]+(?:\s+[A-Z][a-z]+)?\b/g *)
namePattern ==
    <<WB, In(Upper, 1, 1), In(Lower, 1, -1), In(Space, 1, -1), In(Upper, 1, 1), In(Lower, 1, -1),
      Opt(3), In(Space, 1, -1), In(Upper, 1, 1), In(Lower, 1, -1), WB>>

(* /\b[A-Z0-9]{8,15}\b/g *)
idPattern == <<WB, In(Upper \cup Digit, 8, 15), WB>>

(* An object with optional fields is a function on the fields it has. *)
EmptyObject == <<>>
Has(obj, field) == field \in DOMAIN obj
With(obj, field, value) ==
    [f \in DOMAIN obj \cup {field} |-> IF f = field THEN value ELSE obj[f]]

(* !obj.field: the field is unset or the empty string *)
Falsy(obj, field) == ~Has(obj, field) \/ obj[field] = ""

(* Fault: the field is assigned from the match whether or not it is set *)
fillFromMatchOverwrite(extractedData, field, matches) ==
    IF Len(matches) > 0
    THEN With(extractedData, field, Str(matches[1]))
    ELSE extractedData

(* if (!extractedData.field) { matches = allText.match(pattern);
   if (matches && matches.length > 0) extractedData.field = matches[0] } *)
fillFromMatch(extractedData, field, matches) ==
    IF Falsy(extractedData, field) /\ Len(matches) > 0
    THEN With(extractedData, field, Str(matches[1]))
    ELSE extractedData

(* Fault: the fallback looks for the ID number only *)
fallbackOnIdOnly(extractedData, allText) ==
    fillFromMatch(extractedData, "idNumber", match(allText, idPattern))

fallbackOn(extractedData, allText) ==
    fillFromMatch(fillFromMatch(extractedData, "name", match(allText, namePattern)),
                  "idNumber", match(allText, idPattern))

(* The fallback pattern matching on the joined meaningful lines *)
fallbackMatch(extractedData, meaningfulLines) ==
    IF Falsy(extractedData, "name") \/ Falsy(extractedData, "idNumber")
    THEN fallbackOn(extractedData, join(meaningfulLines, <<" ">>))
    ELSE extractedData

(* Fault: the field is assigned without testing that a candidate was found *)
setIfFoundAlways(extractedData, field, cand, formatted) ==
    With(extractedData, field, Str(formatted))

(* if (bestCandidate) extractedData.field = formatted *)
setIfFound(extractedData, field, cand, formatted) ==
    IF cand # <<>> THEN With(extractedData, field, Str(formatted)) ELSE extractedData

(* The locals of extractIDCardText when it returns; scored is extractedData
   before the fallback *)
idFrame(lines, meaningfulLines, bestName, bestId, scored) ==
    [lines |-> StrEach(lines),
     meaningfulLines |-> StrEach(meaningfulLines),
     bestNameCandidate |-> Str(bestName.line),
     bestIdCandidate |-> Str(bestId.line),
     scored |-> scored,
     extractedData |-> fallbackMatch(scored, meaningfulLines)]

idAfterLoops(lines, meaningfulLines, bestName, bestId) ==
    idFrame(lines, meaningfulLines, bestName, bestId,
            setIfFound(setIfFound(EmptyObject, "name", bestName.line, formatName(bestName.line)),
                       "idNumber", bestId.line, formatId(bestId.line)))

idAfterNameLoop(lines, meaningfulLines, bestName) ==
    idAfterLoops(lines, meaningfulLines, bestName,
                 idLoop(meaningfulLines, bestName.line, NoCandidate))

idAfterFilter(lines, meaningfulLines) ==
    idAfterNameLoop(lines, meaningfulLines, nameLoop(meaningfulLines, NoCandidate))

idAfterSplit(lines) == idAfterFilter(lines, filterLines(lines))

(* The body of extractIDCardText from the OCR result's text on *)
extractIDCardTextBody(text) == idAfterSplit(splitLines(Chars(text)))

(***************************************************************************)
(* extractLicensePlate                                                     *)
(***************************************************************************)

platePatterns ==
    << <<WB, In(Upper, 2, 3), In({"-"} \cup Space, 0, 1), In(Digit, 2, 4), WB>>,
       <<WB, In(Digit, 2, 3), In({"-"} \cup Space, 0, 1), In(Upper, 2, 3), WB>>,
       <<WB, In(Upper, 1, 2), In(Digit, 2, 4), In(Upper, 0, 1), WB>>,
       <<WB, In(Digit, 1, 3), In(Upper, 2, 4), WB>>,
       <<WB, In(Upper \cup Digit, 4, 8), WB>> >>

plateScoreSum(cleanText, hasNumbers, hasLetters) ==
    AddIf(test(<<Bol, In(Upper, 1, 1), In(Digit, 3, 4), Eol>>, cleanText),
      AddIf(test(<<Bol, In(Digit, 2, 3), In(Upper, 2, 3), Eol>>, cleanText),
        AddIf(test(<<Bol, In(Upper, 2, 3), In(Digit, 2, 4), Eol>>, cleanText),
          AddIf(Len(cleanText) >= 3 /\ Len(cleanText) <= 10
                    /\ ~(Len(cleanText) >= 4 /\ Len(cleanText) <= 8),
            AddIf(Len(cleanText) >= 4 /\ Len(cleanText) <= 8,
              AddIf(hasNumbers /\ ~hasLetters /\ Len(cleanText) >= 3,
                AddIf(hasNumbers /\ hasLetters, Zero, P5),
                P3),
              P3),
            P1),
          P2),
        P2),
      P15)

plateScoreOf(cleanText, hasNumbers, hasLetters) ==
    IF ~hasNumbers /\ ~hasLetters THEN Zero
    ELSE DMin(plateScoreSum(cleanText, hasNumbers, hasLetters), One)

plateScoreClean(cleanText) ==
    plateScoreOf(cleanText, test(<<In(Digit, 1, 1)>>, cleanText),
                 test(<<In(Upper, 1, 1)>>, cleanText))

calculatePlateScore(text) ==
    plateScoreClean(replace(text, <<NotIn(Upper \cup Digit, 1, 1)>>, <<>>))

(* line.replace(/[^A-Z0-9-\s]/g, '').toUpperCase().trim() *)
plateCleanLine(line) ==
    trim(toUpperCase(replace(line, <<NotIn(Upper \cup Digit \cup {"-"} \cup Space, 1, 1)>>, <<>>)))

(* Fault: the test is score >= bestPlateScore, so the last of equal matches
   is kept *)
betterPlateLast(best, m, score) ==
    IF DLe(best.score, score) THEN [line |-> m, score |-> score] ELSE best

(* if (score > bestPlateScore) the match becomes the candidate *)
betterPlate(best, m, score) ==
    IF DLt(best.score, score) THEN [line |-> m, score |-> score] ELSE best

(* for (const match of matches) *)
RECURSIVE plateMatchLoop(_, _)
plateMatchLoop(matches, best) ==
    IF matches = <<>> THEN best
    ELSE plateMatchLoop(Tail(matches),
                        betterPlate(best, Head(matches), calculatePlateScore(Head(matches))))

(* for (const pattern of platePatterns), from pattern k on *)
RECURSIVE platePatternLoop(_, _, _)
platePatternLoop(cleanLine, k, best) ==
    IF k > Len(platePatterns) THEN best
    ELSE platePatternLoop(cleanLine, k + 1,
                          plateMatchLoop(match(cleanLine, platePatterns[k]), best))

plateLineStep(cleanLine, best) ==
    IF Len(cleanLine) < 3 THEN best ELSE platePatternLoop(cleanLine, 1, best)

(* for (const line of lines) *)
RECURSIVE plateLineLoop(_, _)
plateLineLoop(lines, best) ==
    IF lines = <<>> THEN best
    ELSE plateLineLoop(Tail(lines), plateLineStep(plateCleanLine(Head(lines)), best))

(* Fault: the fallback accepts a text of 3 characters *)
plateFallbackOnFrom3(allText) ==
    IF Len(allText) >= 3 /\ Len(allText) <= 10 /\ DLt(P5, calculatePlateScore(allText))
    THEN allText
    ELSE <<>>

plateFallbackOn(allText) ==
    IF Len(allText) >= 4 /\ Len(allText) <= 10 /\ DLt(P5, calculatePlateScore(allText))
    THEN allText
    ELSE <<>>

(* The fallback on the entire text: the candidate it yields, '' when none *)
plateFallback(lines) ==
    plateFallbackOn(toUpperCase(replace(join(lines, <<" ">>),
                                        <<NotIn(Upper \cup Digit, 1, 1)>>, <<>>)))

(* Fault: whitespace is left in the candidate *)
formatPlateKeepSpace(cand) == replace(cand, <<In({"-"}, 1, 1), In({"-"}, 1, -1)>>, <<"-">>)

(* bestPlateCandidate.replace(/\s+/g, '').replace(/--+/g, '-') *)
formatPlate(cand) ==
    replace(replace(cand, <<In(Space, 1, -1)>>, <<>>),
            <<In({"-"}, 1, 1), In({"-"}, 1, -1)>>, <<"-">>)

(* The locals of extractLicensePlate when it returns; matched is
   bestPlateCandidate before the fallback *)
plateFrame(lines, matched, bestPlateCandidate) ==
    [lines |-> StrEach(lines),
     matched |-> Str(matched),
     bestPlateCandidate |-> Str(bestPlateCandidate),
     extractedData |-> setIfFound(EmptyObject, "plateNumber", bestPlateCandidate,
                                  formatPlate(bestPlateCandidate))]

plateAfterLoop(lines, matched) ==
    plateFrame(lines, matched, IF matched = <<>> THEN plateFallback(lines) ELSE matched)

plateAfterSplit(lines) == plateAfterLoop(lines, plateLineLoop(lines, NoCandidate).line)

(* The body of extractLicensePlate from the OCR result's text on *)
extractLicensePlateBody(text) == plateAfterSplit(splitLines(Chars(text)))

(***************************************************************************)
(* The OCR engine's possible answers                                       *)
(***************************************************************************)

MaxLines == 2
MaxShortLen == 4

(* Lines as they are read off ID cards and plates: names, numbers, headers,
   labels, dates. *)
CardLines ==
    {"John Michael Smith", "REPUBLIC OF EXAMPLAND", "12/05/1990", "A1B2C3D4E5",
     "AB CDEFGHIJ", "John Smith a b 1c", "ab123456", "Mary \t Jones",
     "Ann Dobbs", "Sex: M", "AB_12 #7", "Ann  Lee x y z 2", "Smith"}

(* Recognized text of up to MaxLines such lines *)
CardTexts ==
    {Str(join([i \in 1..Len(ls) |-> Chars(ls[i])], <<"\n">>)) :
        ls \in UNION {[1..n -> CardLines] : n \in 0..MaxLines}}

(* Every text of up to MaxShortLen characters over a small alphabet *)
ShortTexts ==
    {Str(cs) : cs \in UNION {[1..n -> {"A", "1", ".", " ", "\n"}] : n \in 0..MaxShortLen}}

(* Plates of 2-3 letters, an optional separator and 2-4 digits, on one line,
   and lines that hold two plates *)
PlateTexts ==
    {l \o s \o d : l \in {"AB", "ABC"}, s \in {"", " ", "-"}, d \in {"12", "123", "1234"}}
        \cup {"AB12 CD34", "12AB AB12", "A123 12AB", "abc 1234"}

OcrTexts == CardTexts \cup ShortTexts \cup PlateTexts

(* Strings handed to a scorer directly *)
ScorerInputs == CardLines \cup ShortTexts \cup PlateTexts

(***************************************************************************)
(* The extraction calls                                                    *)
(***************************************************************************)

NoOcr   == [kind |-> "none", text |-> ""]
NoFrame == [lines |-> <<>>]
NoProbe == [fn |-> "none", line |-> "", score |-> Zero]
NoCalls == <<>>
NoModal == [kind |-> "none"]
NoServer == [kind |-> "none"]
NoCamera == [kind |-> "none"]

Init ==
    /\ pc = "idle"
    /\ fn = "none"
    /\ ocr = NoOcr
    /\ frame = NoFrame
    /\ result = EmptyObject
    /\ console = FALSE
    /\ probe = NoProbe
    /\ server = NoServer
    /\ camera = NoCamera
    /\ calls = NoCalls
    /\ modal = NoModal

(* A caller invokes an entry point: the function runs up to
   await Tesseract.recognize(...) *)
CallExtractIDCardText ==
    /\ pc \in {"idle", "returned"}
    /\ pc' = "awaiting"
    /\ fn' = "extractIDCardText"
    /\ ocr' = NoOcr
    /\ frame' = NoFrame
    /\ result' = EmptyObject
    /\ console' = FALSE
    /\ UNCHANGED <<probe, calls, modal, server, camera>>

CallExtractLicensePlate ==
    /\ pc \in {"idle", "returned"}
    /\ pc' = "awaiting"
    /\ fn' = "extractLicensePlate"
    /\ ocr' = NoOcr
    /\ frame' = NoFrame
    /\ result' = EmptyObject
    /\ console' = FALSE
    /\ UNCHANGED <<probe, calls, modal, server, camera>>

(* The recognition resolves with text: the rest of the try block runs and
   the function returns extractedData. *)
extractIDCardTextReturns ==
    /\ pc = "awaiting"
    /\ fn = "extractIDCardText"
    /\ \E text \in OcrTexts :
        /\ ocr' = [kind |-> "text", text |-> text]
        /\ frame' = extractIDCardTextBody(text)
    /\ result' = frame'.extractedData
    /\ pc' = "returned"
    /\ UNCHANGED <<fn, console, probe, calls, modal, server, camera>>

extractLicensePlateReturns ==
    /\ pc = "awaiting"
    /\ fn = "extractLicensePlate"
    /\ \E text \in OcrTexts :
        /\ ocr' = [kind |-> "text", text |-> text]
        /\ frame' = extractLicensePlateBody(text)
    /\ result' = frame'.extractedData
    /\ pc' = "returned"
    /\ UNCHANGED <<fn, console, probe, calls, modal, server, camera>>

(* Fault: no catch block, the failure reaches the caller *)
extractIDCardTextRethrows ==
    /\ pc = "awaiting"
    /\ fn = "extractIDCardText"
    /\ \E kind \in {"throw", "notext"} : ocr' = [kind |-> kind, text |-> ""]
    /\ pc' = "raised"
    /\ UNCHANGED <<fn, frame, result, console, probe, calls, modal, server, camera>>

(* The recognition rejects ("throw"), or resolves with a result that has no
   text so that text.split throws ("notext"): the catch block logs the error
   and returns {}. *)
extractIDCardTextCatches ==
    /\ pc = "awaiting"
    /\ fn = "extractIDCardText"
    /\ \E kind \in {"throw", "notext"} : ocr' = [kind |-> kind, text |-> ""]
    /\ console' = TRUE
    /\ result' = EmptyObject
    /\ pc' = "returned"
    /\ UNCHANGED <<fn, frame, probe, calls, modal, server, camera>>

extractLicensePlateCatches ==
    /\ pc = "awaiting"
    /\ fn = "extractLicensePlate"
    /\ \E kind \in {"throw", "notext"} : ocr' = [kind |-> kind, text |-> ""]
    /\ console' = TRUE
    /\ result' = EmptyObject
    /\ pc' = "returned"
    /\ UNCHANGED <<fn, frame, probe, calls, modal, server, camera>>

Next ==
    \/ CallExtractIDCardText
    \/ CallExtractLicensePlate
    \/ extractIDCardTextReturns
    \/ extractLicensePlateReturns
    \/ extractIDCardTextCatches
    \/ extractLicensePlateCatches

Spec == Init /\ [][Next]_vars

(***************************************************************************)
(* The scorers applied on their own to a given string                      *)
(***************************************************************************)

InitScorers ==
    /\ pc = "idle"
    /\ fn = "none"
    /\ ocr = NoOcr
    /\ frame = NoFrame
    /\ result = EmptyObject
    /\ console = FALSE
    /\ \E line \in ScorerInputs : probe = [fn |-> "none", line |-> line, score |-> Zero]
    /\ server = NoServer
    /\ camera = NoCamera
    /\ calls = NoCalls
    /\ modal = NoModal

ApplyNameScore ==
    /\ probe.fn = "none"
    /\ probe' = [fn |-> "calculateNameScore", line |-> probe.line,
                 score |-> calculateNameScore(Chars(probe.line))]
    /\ UNCHANGED <<pc, fn, ocr, frame, result, console, calls, modal, server, camera>>

ApplyIdScore ==
    /\ probe.fn = "none"
    /\ probe' = [fn |-> "calculateIdScore", line |-> probe.line,
                 score |-> calculateIdScore(Chars(probe.line))]
    /\ UNCHANGED <<pc, fn, ocr, frame, result, console, calls, modal, server, camera>>

ApplyPlateScore ==
    /\ probe.fn = "none"
    /\ probe' = [fn |-> "calculatePlateScore", line |-> probe.line,
                 score |-> calculatePlateScore(Chars(probe.line))]
    /\ UNCHANGED <<pc, fn, ocr, frame, result, console, calls, modal, server, camera>>

NextScorers == ApplyNameScore \/ ApplyIdScore \/ ApplyPlateScore

SpecScorers == InitScorers /\ [][NextScorers]_vars

(***************************************************************************)
(* Extraction calls in flight together                                     *)
(***************************************************************************)

MaxCalls == 3

Calls == 1..MaxCalls

(* What the OCR engine reads off the images of concurrent calls *)
ConcurrentTexts == {"", "John Michael Smith\nA1B2C3D4E5", "ABC 1234"}

NoCall == [pc |-> "idle", fn |-> "none", ocr |-> NoOcr, result |-> EmptyObject]

(* What each entry point returns on each text: each call computes it from
   its own locals *)
Extraction ==
    [f \in {"extractIDCardText", "extractLicensePlate"} |->
        [text \in ConcurrentTexts |->
            IF f = "extractIDCardText"
            THEN extractIDCardTextBody(text).extractedData
            ELSE extractLicensePlateBody(text).extractedData]]

(* Fault: extractedData is a variable of the module, so that a call which
   finds nothing returns what an earlier call of the function left in it *)
returnedShared(call, text) ==
    [pc |-> "returned", fn |-> call.fn, ocr |-> [kind |-> "text", text |-> text],
     result |-> IF /\ Extraction[call.fn][text] = EmptyObject
                   /\ \E d \in Calls : calls[d].pc = "returned" /\ calls[d].fn = call.fn
                THEN calls[CHOOSE d \in Calls :
                               calls[d].pc = "returned" /\ calls[d].fn = call.fn].result
                ELSE Extraction[call.fn][text]]

(* The call once its recognition has resolved with text and the function
   has returned *)
returned(call, text) ==
    [pc |-> "returned", fn |-> call.fn, ocr |-> [kind |-> "text", text |-> text],
     result |-> Extraction[call.fn][text]]

InitConcurrent ==
    /\ pc = "idle"
    /\ fn = "none"
    /\ ocr = NoOcr
    /\ frame = NoFrame
    /\ result = EmptyObject
    /\ console = FALSE
    /\ probe = NoProbe
    /\ server = NoServer
    /\ camera = NoCamera
    /\ calls = [c \in Calls |-> NoCall]
    /\ modal = NoModal

(* A caller invokes extractIDCardText on an image while other calls may be
   awaiting their recognition *)
InvokeExtractIDCardText ==
    /\ \E c \in Calls :
        /\ calls[c].pc = "idle"
        /\ calls' = [calls EXCEPT ![c].pc = "awaiting", ![c].fn = "extractIDCardText"]
    /\ UNCHANGED <<pc, fn, ocr, frame, result, console, probe, modal, server, camera>>

InvokeExtractLicensePlate ==
    /\ \E c \in Calls :
        /\ calls[c].pc = "idle"
        /\ calls' = [calls EXCEPT ![c].pc = "awaiting", ![c].fn = "extractLicensePlate"]
    /\ UNCHANGED <<pc, fn, ocr, frame, result, console, probe, modal, server, camera>>

(* The recognition of one of the awaiting calls resolves, in any order, and
   that call runs to its return *)
RecognizeResolves ==
    /\ \E c \in Calls, text \in ConcurrentTexts :
        /\ calls[c].pc = "awaiting"
        /\ calls' = [calls EXCEPT ![c] = returned(calls[c], text)]
    /\ UNCHANGED <<pc, fn, ocr, frame, result, console, probe, modal, server, camera>>

(* The recognition of one of the awaiting calls rejects: its catch block
   returns {} *)
RecognizeRejects ==
    /\ \E c \in Calls :
        /\ calls[c].pc = "awaiting"
        /\ calls' = [calls EXCEPT ![c] = [pc |-> "returned", fn |-> calls[c].fn,
                                          ocr |-> [kind |-> "throw", text |-> ""],
                                          result |-> EmptyObject]]
    /\ UNCHANGED <<pc, fn, ocr, frame, result, console, probe, modal, server, camera>>

NextConcurrent ==
    \/ InvokeExtractIDCardText
    \/ InvokeExtractLicensePlate
    \/ RecognizeResolves
    \/ RecognizeRejects

SpecConcurrent == InitConcurrent /\ [][NextConcurrent]_vars

(***************************************************************************)
(* The registration modals                                                 *)
(***************************************************************************)

(* What the OCR engine reads off the images captured in a modal *)
ModalTexts == {"", "John Michael Smith\nA1B2C3D4E5", "John Michael Smith", "ABC 1234"}

(* What a user types into a field, the empty string to clear it *)
TypedValues == {"", "typed"}

VisitorExtractions == {extractIDCardTextBody(text).extractedData : text \in ModalTexts}
VehicleExtractions == {extractLicensePlateBody(text).extractedData : text \in ModalTexts}

(* useForm defaultValues, for the fields the extraction can fill *)
visitorDefaultValues == [name |-> "", idNumber |-> "", city |-> "", address |-> ""]
vehicleDefaultValues == [plateNumber |-> ""]

(* useState(false), useState(null), useState(false) and the form; typed,
   extracted and processed record what the user typed into and what the last
   processed capture gave *)
modalState(kind, defaultValues) ==
    [kind |-> kind, showCamera |-> FALSE, capturedImage |-> FALSE,
     isProcessingOCR |-> FALSE, form |-> defaultValues,
     typed |-> {}, extracted |-> EmptyObject, processed |-> FALSE]

(* if (extractedData.field) form.setValue(field, extractedData.field) *)
setValueIfTruthy(form, extractedData, field) ==
    IF Falsy(extractedData, field) THEN form ELSE [form EXCEPT ![field] = extractedData[field]]

visitorFill(form, extractedData) ==
    setValueIfTruthy(setValueIfTruthy(setValueIfTruthy(setValueIfTruthy(
        form, extractedData, "name"), extractedData, "idNumber"),
        extractedData, "address"), extractedData, "city")

InitModal ==
    /\ pc = "idle"
    /\ fn = "none"
    /\ ocr = NoOcr
    /\ frame = NoFrame
    /\ result = EmptyObject
    /\ console = FALSE
    /\ probe = NoProbe
    /\ server = NoServer
    /\ camera = NoCamera
    /\ calls = NoCalls
    /\ modal \in {modalState("visitor", visitorDefaultValues),
                  modalState("vehicle", vehicleDefaultValues)}

(* Take Photo / Retake Photo: onClick={() => setShowCamera(true)}; the
   buttons are rendered when the camera is closed and no OCR is running *)
VisitorTakePhoto ==
    /\ modal.kind = "visitor"
    /\ ~modal.showCamera
    /\ ~modal.isProcessingOCR
    /\ modal' = [modal EXCEPT !.showCamera = TRUE]
    /\ UNCHANGED <<pc, fn, ocr, frame, result, console, probe, calls, server, camera>>

(* The X of the camera view: onClick={() => setShowCamera(false)} *)
VisitorCloseCamera ==
    /\ modal.kind = "visitor"
    /\ modal.showCamera
    /\ modal' = [modal EXCEPT !.showCamera = FALSE]
    /\ UNCHANGED <<pc, fn, ocr, frame, result, console, probe, calls, server, camera>>

(* handleImageCapture up to await extractIDCardText(imageData) *)
VisitorHandleImageCapture ==
    /\ modal.kind = "visitor"
    /\ modal.showCamera
    /\ modal' = [modal EXCEPT !.capturedImage = TRUE, !.showCamera = FALSE,
                              !.isProcessingOCR = TRUE]
    /\ UNCHANGED <<pc, fn, ocr, frame, result, console, probe, calls, server, camera>>

(* handleImageCapture from the resolution of extractIDCardText on: the form
   is filled from the fields the extraction gave, then finally runs *)
VisitorExtractionResolves ==
    /\ modal.kind = "visitor"
    /\ modal.isProcessingOCR
    /\ \E extractedData \in VisitorExtractions :
        modal' = [modal EXCEPT !.form = visitorFill(modal.form, extractedData),
                               !.isProcessingOCR = FALSE,
                               !.extracted = extractedData,
                               !.processed = TRUE]
    /\ UNCHANGED <<pc, fn, ocr, frame, result, console, probe, calls, server, camera>>

(* The user edits a registered input of the form, which is rendered when the
   camera is closed *)
VisitorTypes ==
    /\ modal.kind = "visitor"
    /\ ~modal.showCamera
    /\ \E field \in {"name", "idNumber"}, value \in TypedValues :
        modal' = [modal EXCEPT !.form[field] = value, !.typed = @ \cup {field}]
    /\ UNCHANGED <<pc, fn, ocr, frame, result, console, probe, calls, server, camera>>

(* createVisitorMutation onSuccess: form.reset(); setCapturedImage(null) *)
VisitorRegistered ==
    /\ modal.kind = "visitor"
    /\ ~modal.showCamera
    /\ modal' = [modal EXCEPT !.form = visitorDefaultValues, !.capturedImage = FALSE,
                              !.typed = {}, !.extracted = EmptyObject, !.processed = FALSE]
    /\ UNCHANGED <<pc, fn, ocr, frame, result, console, probe, calls, server, camera>>

VehicleTakePhoto ==
    /\ modal.kind = "vehicle"
    /\ ~modal.showCamera
    /\ ~modal.isProcessingOCR
    /\ modal' = [modal EXCEPT !.showCamera = TRUE]
    /\ UNCHANGED <<pc, fn, ocr, frame, result, console, probe, calls, server, camera>>

VehicleCloseCamera ==
    /\ modal.kind = "vehicle"
    /\ modal.showCamera
    /\ modal' = [modal EXCEPT !.showCamera = FALSE]
    /\ UNCHANGED <<pc, fn, ocr, frame, result, console, probe, calls, server, camera>>

(* handleImageCapture up to await extractLicensePlate(imageData) *)
VehicleHandleImageCapture ==
    /\ modal.kind = "vehicle"
    /\ modal.showCamera
    /\ modal' = [modal EXCEPT !.capturedImage = TRUE, !.showCamera = FALSE,
                              !.isProcessingOCR = TRUE]
    /\ UNCHANGED <<pc, fn, ocr, frame, result, console, probe, calls, server, camera>>

(* handleImageCapture from the resolution of extractLicensePlate on *)
VehicleExtractionResolves ==
    /\ modal.kind = "vehicle"
    /\ modal.isProcessingOCR
    /\ \E extractedData \in VehicleExtractions :
        modal' = [modal EXCEPT !.form = setValueIfTruthy(modal.form, extractedData,
                                                         "plateNumber"),
                               !.isProcessingOCR = FALSE,
                               !.extracted = extractedData,
                               !.processed = TRUE]
    /\ UNCHANGED <<pc, fn, ocr, frame, result, console, probe, calls, server, camera>>

VehicleTypes ==
    /\ modal.kind = "vehicle"
    /\ ~modal.showCamera
    /\ \E value \in TypedValues :
        modal' = [modal EXCEPT !.form["plateNumber"] = value, !.typed = @ \cup {"plateNumber"}]
    /\ UNCHANGED <<pc, fn, ocr, frame, result, console, probe, calls, server, camera>>

(* createVehicleMutation onSuccess: form.reset(); the captured image stays *)
VehicleRegistered ==
    /\ modal.kind = "vehicle"
    /\ ~modal.showCamera
    /\ modal' = [modal EXCEPT !.form = vehicleDefaultValues,
                              !.typed = {}, !.extracted = EmptyObject, !.processed = FALSE]
    /\ UNCHANGED <<pc, fn, ocr, frame, result, console, probe, calls, server, camera>>

NextModal ==
    \/ VisitorTakePhoto
    \/ VisitorCloseCamera
    \/ VisitorHandleImageCapture
    \/ VisitorExtractionResolves
    \/ VisitorTypes
    \/ VisitorRegistered
    \/ VehicleTakePhoto
    \/ VehicleCloseCamera
    \/ VehicleHandleImageCapture
    \/ VehicleExtractionResolves
    \/ VehicleTypes
    \/ VehicleRegistered

SpecModal == InitModal /\ [][NextModal]_vars

(***************************************************************************)
(* The server: the routes of server/routes.ts over server/storage.ts       *)
(***************************************************************************)

MaxWrites == 3
MaxSessions == 1

(* Browser sessions (one cookie each) *)
Sessions == 1..MaxSessions

(* exitTime of a record that has not left: SQL NULL *)
Null == 0

(* The users table once the administrator has created a regular user; ids
   are serial. verifyPassword is bcrypt.compare(password, hash): the row holds
   the password its hash was made from. *)
SeedUsers ==
    <<[username |-> "admin", password |-> "admin123", role |-> "admin", isActive |-> TRUE],
      [username |-> "guard", password |-> "guard123", role |-> "user", isActive |-> TRUE]>>

NoResponse == [route |-> "none", userId |-> 0, status |-> 0]

InitServer ==
    /\ pc = "idle"
    /\ fn = "none"
    /\ ocr = NoOcr
    /\ frame = NoFrame
    /\ result = EmptyObject
    /\ console = FALSE
    /\ probe = NoProbe
    /\ calls = NoCalls
    /\ modal = NoModal
    /\ camera = NoCamera
    /\ server = [kind |-> "server",
                 users |-> SeedUsers,
                 sessions |-> [s \in Sessions |-> EmptyObject],
                 visitors |-> <<>>,
                 vehicles |-> <<>>,
                 activityLogs |-> <<>>,
                 time |-> 1,
                 response |-> NoResponse]

(* What a database statement does: all succeed, the first statement of the
   handler rejects, or the insert into activity_logs rejects *)
DbOutcomes == {"ok", "first fails", "log fails"}

(* Request bodies and the :id parameter *)
LoginBodies ==
    [username : {"admin", "guard", "nobody"}, password : {"admin123", "guard123", ""}]
IdParams == {"1", "2", "abc"}

(* req.session.userId, 0 when the session has none *)
userIdOf(session) == IF Has(session, "userId") THEN session.userId ELSE 0

(* The response of a request made on session s; userId is the user the
   session belonged to when the request arrived *)
respond(srv, route, s, status) ==
    [srv EXCEPT !.response = [route |-> route,
                              userId |-> userIdOf(server.sessions[s]), status |-> status]]

(* The middleware: the status it answers with, 0 when it calls next() *)
requireAuth(session) == IF ~Has(session, "userId") THEN 401 ELSE 0

requireAdmin(session) ==
    IF ~Has(session, "userId") THEN 401
    ELSE IF session.role # "admin" THEN 403
    ELSE 0

getUserByUsername(users, username) == {id \in DOMAIN users : users[id].username = username}

(* parseInt(req.params.id) *)
parseInt(param) ==
    IF \E n \in 1..9 : ToString(n) = param
    THEN [isNaN |-> FALSE, value |-> CHOOSE n \in 1..9 : ToString(n) = param]
    ELSE [isNaN |-> TRUE]

(* POST /api/auth/login *)
loginAs(srv, s, body, found) ==
    IF found = {} THEN respond(srv, "/api/auth/login", s, 401)
    ELSE IF ~srv.users[CHOOSE id \in found : TRUE].isActive
    THEN [respond(srv, "/api/auth/login", s, 401) EXCEPT !.response.userId = CHOOSE id \in found : TRUE]
    ELSE IF body.password # srv.users[CHOOSE id \in found : TRUE].password
    THEN [respond(srv, "/api/auth/login", s, 401) EXCEPT !.response.userId = CHOOSE id \in found : TRUE]
    ELSE [respond(srv, "/api/auth/login", s, 200) EXCEPT
             !.response.userId = CHOOSE id \in found : TRUE,
             !.sessions[s] = [userId |-> CHOOSE id \in found : TRUE,
                              username |-> body.username,
                              role |-> srv.users[CHOOSE id \in found : TRUE].role]]

PostAuthLogin ==
    \E s \in Sessions, body \in LoginBodies, db \in {"ok", "first fails"} :
        /\ server.kind = "server"
        /\ server' = IF body.username = "" \/ body.password = "" \/ db = "first fails"
                     THEN respond(server, "/api/auth/login", s, 400)
                     ELSE loginAs(server, s, body, getUserByUsername(server.users, body.username))
        /\ UNCHANGED <<pc, fn, ocr, frame, result, console, probe, calls, modal, camera>>

(* POST /api/auth/logout: req.session.destroy *)
PostAuthLogout ==
    \E s \in Sessions, db \in {"ok", "first fails"} :
        /\ server.kind = "server"
        /\ server' = IF db = "first fails"
                     THEN respond(server, "/api/auth/logout", s, 500)
                     ELSE [respond(server, "/api/auth/logout", s, 200) EXCEPT
                              !.sessions[s] = EmptyObject]
        /\ UNCHANGED <<pc, fn, ocr, frame, result, console, probe, calls, modal, camera>>

(* GET /api/auth/me *)
GetAuthMe ==
    \E s \in Sessions, db \in {"ok", "first fails"} :
        /\ server.kind = "server"
        /\ server' = respond(server, "/api/auth/me", s,
                        IF requireAuth(server.sessions[s]) # 0 THEN requireAuth(server.sessions[s])
                        ELSE IF db = "first fails" THEN 500
                        ELSE IF server.sessions[s].userId \notin DOMAIN server.users
                                \/ ~server.users[server.sessions[s].userId].isActive THEN 401
                        ELSE 200)
        /\ UNCHANGED <<pc, fn, ocr, frame, result, console, probe, calls, modal, camera>>

(* The routes that only read, by the middleware in front of them *)
AuthRoutes ==
    {"/api/stats", "/api/visitors", "/api/visitors/inside", "/api/vehicles", "/api/vehicles/inside"}
AdminRoutes == {"/api/users", "/api/logs"}

guardOf(route, session) ==
    IF route \in AdminRoutes THEN requireAdmin(session) ELSE requireAuth(session)

GetRoute ==
    \E s \in Sessions, route \in AuthRoutes \cup AdminRoutes, db \in {"ok", "first fails"} :
        /\ server.kind = "server"
        /\ server' = respond(server, route, s,
                        IF guardOf(route, server.sessions[s]) # 0
                        THEN guardOf(route, server.sessions[s])
                        ELSE IF db = "first fails" THEN 500 ELSE 200)
        /\ UNCHANGED <<pc, fn, ocr, frame, result, console, probe, calls, modal, camera>>

(* storage.createActivityLog *)
createActivityLog(srv, type, entityId, action, createdBy) ==
    [srv EXCEPT !.activityLogs = Append(@, [type |-> type, entityId |-> entityId,
                                            action |-> action, createdBy |-> createdBy])]

(* storage.createVisitor / storage.createVehicle: insert the row, then the
   ENTRY log; a rejected statement throws out of the function *)
create(srv, table, type, userId, db) ==
    IF db = "first fails" THEN srv
    ELSE LET inserted == [srv EXCEPT ![table] = Append(@, [status |-> "IN", exitTime |-> Null])]
         IN  IF db = "log fails" THEN inserted
             ELSE createActivityLog(inserted, type, Len(inserted[table]), "ENTRY", userId)

(* storage.markVisitorExit / storage.markVehicleExit: update the row, then
   the EXIT log; with no row of that id the update returns nothing and
   visitor.id throws *)
markExit(srv, table, type, id, userId, db) ==
    IF db = "first fails" \/ id \notin DOMAIN srv[table] THEN srv
    ELSE LET updated == [srv EXCEPT ![table][id] = [@ EXCEPT !.status = "OUT",
                                                              !.exitTime = srv.time]]
         IN  IF db = "log fails" THEN updated
             ELSE createActivityLog(updated, type, id, "EXIT", userId)

(* The clock moves on between two requests that write *)
tick(srv) == [srv EXCEPT !.time = @ + 1]

(* POST /api/visitors and POST /api/vehicles *)
postCreate(route, table, type, s, valid, db) ==
    IF requireAuth(server.sessions[s]) # 0
    THEN respond(server, route, s, requireAuth(server.sessions[s]))
    ELSE IF ~valid THEN respond(server, route, s, 400)
    ELSE respond(create(server, table, type, server.sessions[s].userId, db), route, s,
                 IF db = "ok" THEN 200 ELSE 500)

PostVisitors ==
    \E s \in Sessions, valid \in BOOLEAN, db \in DbOutcomes :
        /\ server.kind = "server"
        /\ server.time <= MaxWrites
        /\ server' = tick(postCreate("/api/visitors", "visitors", "visitor", s, valid, db))
        /\ UNCHANGED <<pc, fn, ocr, frame, result, console, probe, calls, modal, camera>>

PostVehicles ==
    \E s \in Sessions, valid \in BOOLEAN, db \in DbOutcomes :
        /\ server.kind = "server"
        /\ server.time <= MaxWrites
        /\ server' = tick(postCreate("/api/vehicles", "vehicles", "vehicle", s, valid, db))
        /\ UNCHANGED <<pc, fn, ocr, frame, result, console, probe, calls, modal, camera>>

(* POST /api/visitors/:id/exit and POST /api/vehicles/:id/exit *)
postExit(route, table, type, s, id, db) ==
    IF requireAuth(server.sessions[s]) # 0
    THEN respond(server, route, s, requireAuth(server.sessions[s]))
    ELSE IF id.isNaN THEN respond(server, route, s, 400)
    ELSE respond(markExit(server, table, type, id.value, server.sessions[s].userId, db), route, s,
                 IF db = "ok" /\ id.value \in DOMAIN server[table] THEN 200 ELSE 500)

PostVisitorExit ==
    \E s \in Sessions, param \in IdParams, db \in DbOutcomes :
        /\ server.kind = "server"
        /\ server.time <= MaxWrites
        /\ server' = tick(postExit("/api/visitors/:id/exit", "visitors", "visitor", s,
                                   parseInt(param), db))
        /\ UNCHANGED <<pc, fn, ocr, frame, result, console, probe, calls, modal, camera>>

PostVehicleExit ==
    \E s \in Sessions, param \in IdParams, db \in DbOutcomes :
        /\ server.kind = "server"
        /\ server.time <= MaxWrites
        /\ server' = tick(postExit("/api/vehicles/:id/exit", "vehicles", "vehicle", s,
                                   parseInt(param), db))
        /\ UNCHANGED <<pc, fn, ocr, frame, result, console, probe, calls, modal, camera>>

(* storage.deactivateUser(id). The client posts to /api/users/:id/deactivate
   (user-management-modal.tsx); routes.ts registers no handler for it, so the
   storage call stands on its own and answers no request. *)
DeactivateUser ==
    \E id \in DOMAIN server.users :
        /\ server.kind = "server"
        /\ server' = [server EXCEPT !.users[id].isActive = FALSE, !.response = NoResponse]
        /\ UNCHANGED <<pc, fn, ocr, frame, result, console, probe, calls, modal, camera>>

NextServer ==
    \/ PostAuthLogin
    \/ PostAuthLogout
    \/ GetAuthMe
    \/ GetRoute
    \/ PostVisitors
    \/ PostVehicles
    \/ PostVisitorExit
    \/ PostVehicleExit
    \/ DeactivateUser

SpecServer == InitServer /\ [][NextServer]_vars

(***************************************************************************)
(* The camera: useCamera (hooks/use-camera.ts) inside CameraCapture        *)
(***************************************************************************)

MaxStreams == 4

(* A mounted CameraCapture before the camera is started. streams holds every
   MediaStream getUserMedia has handed out, TRUE while its tracks are live;
   streamRef and srcObject name one of them, 0 for null; pending counts the
   startCamera calls awaiting getUserMedia. *)
InitCamera ==
    /\ pc = "idle"
    /\ fn = "none"
    /\ ocr = NoOcr
    /\ frame = NoFrame
    /\ result = EmptyObject
    /\ console = FALSE
    /\ probe = NoProbe
    /\ calls = NoCalls
    /\ modal = NoModal
    /\ server = NoServer
    /\ camera = [kind |-> "camera",
                 mounted |-> TRUE,
                 capturedImage |-> FALSE,
                 error |-> FALSE,
                 isStreaming |-> FALSE,
                 streamRef |-> 0,
                 srcObject |-> 0,
                 pending |-> 0,
                 streams |-> <<>>]

(* videoRef.current: the <video> element is rendered by a mounted component
   that shows neither the error panel nor the captured image *)
videoRef(cam) == cam.mounted /\ ~cam.error /\ ~cam.capturedImage

(* stopCamera *)
stopCamera(cam) ==
    [cam EXCEPT
        !.streams = [i \in DOMAIN @ |-> IF i = cam.streamRef THEN FALSE ELSE @[i]],
        !.streamRef = 0,
        !.srcObject = IF videoRef(cam) THEN 0 ELSE @,
        !.isStreaming = FALSE]

(* startCamera up to its await: setError(null), getUserMedia is called *)
startCamera(cam) == [cam EXCEPT !.error = FALSE, !.pending = @ + 1]

(* The Start Camera button, shown while not streaming, and the Try Again
   button of the error panel *)
ClickStartCamera ==
    /\ camera.kind = "camera"
    /\ camera.mounted
    /\ camera.error \/ (~camera.capturedImage /\ ~camera.isStreaming)
    /\ Len(camera.streams) + camera.pending < MaxStreams
    /\ camera' = startCamera(camera)
    /\ UNCHANGED <<pc, fn, ocr, frame, result, console, probe, calls, modal, server>>

(* handleRetake: setCapturedImage(null); startCamera() *)
HandleRetake ==
    /\ camera.kind = "camera"
    /\ camera.mounted /\ ~camera.error /\ camera.capturedImage
    /\ Len(camera.streams) + camera.pending < MaxStreams
    /\ camera' = startCamera([camera EXCEPT !.capturedImage = FALSE])
    /\ UNCHANGED <<pc, fn, ocr, frame, result, console, probe, calls, modal, server>>

(* getUserMedia resolves with a new live stream; startCamera keeps it only
   if (videoRef.current) *)
GetUserMediaResolves ==
    /\ camera.kind = "camera"
    /\ camera.pending > 0
    /\ camera' = IF videoRef(camera)
                 THEN [camera EXCEPT !.pending = @ - 1,
                                     !.streams = Append(@, TRUE),
                                     !.srcObject = Len(camera.streams) + 1,
                                     !.streamRef = Len(camera.streams) + 1,
                                     !.isStreaming = TRUE]
                 ELSE [camera EXCEPT !.pending = @ - 1, !.streams = Append(@, TRUE)]
    /\ UNCHANGED <<pc, fn, ocr, frame, result, console, probe, calls, modal, server>>

(* getUserMedia rejects: the catch block sets the error *)
GetUserMediaRejects ==
    /\ camera.kind = "camera"
    /\ camera.pending > 0
    /\ camera' = [camera EXCEPT !.pending = @ - 1, !.error = IF camera.mounted THEN TRUE ELSE @]
    /\ UNCHANGED <<pc, fn, ocr, frame, result, console, probe, calls, modal, server>>

(* handleCapture: captureImage() returns null without a video element,
   while not streaming or without a 2d context; otherwise it draws the frame,
   calls stopCamera() and the image is kept *)
HandleCapture ==
    \E context \in BOOLEAN :
        /\ camera.kind = "camera"
        /\ videoRef(camera) /\ camera.isStreaming
        /\ camera' = IF context
                     THEN [stopCamera(camera) EXCEPT !.capturedImage = TRUE]
                     ELSE camera
        /\ UNCHANGED <<pc, fn, ocr, frame, result, console, probe, calls, modal, server>>

(* The component unmounts: the refs are detached and the effect cleanup
   calls stopCamera() *)
unmount(cam) == stopCamera([cam EXCEPT !.mounted = FALSE])

(* handleConfirm: onCapture(capturedImage); stopCamera(). The modal's
   handleImageCapture hides the camera, which unmounts the component. *)
HandleConfirm ==
    /\ camera.kind = "camera"
    /\ camera.mounted /\ ~camera.error /\ camera.capturedImage
    /\ camera' = unmount(stopCamera(camera))
    /\ UNCHANGED <<pc, fn, ocr, frame, result, console, probe, calls, modal, server>>

(* The modal closes the camera view or is closed itself *)
Unmount ==
    /\ camera.kind = "camera"
    /\ camera.mounted
    /\ camera' = unmount(camera)
    /\ UNCHANGED <<pc, fn, ocr, frame, result, console, probe, calls, modal, server>>

NextCamera ==
    \/ ClickStartCamera
    \/ HandleRetake
    \/ GetUserMediaResolves
    \/ GetUserMediaRejects
    \/ HandleCapture
    \/ HandleConfirm
    \/ Unmount

SpecCamera == InitCamera /\ [][NextCamera]_vars

(***************************************************************************)
(* Properties                                                              *)
(***************************************************************************)

Range(s) == {s[i] : i \in DOMAIN s}

(* An extraction call has returned from its try block on recognized text *)
IdDone    == pc = "returned" /\ fn = "extractIDCardText" /\ ocr.kind = "text"
PlateDone == pc = "returned" /\ fn = "extractLicensePlate" /\ ocr.kind = "text"

(* The name and ID scores of the lines, by position *)
NameScores(lines) == [i \in 1..Len(lines) |-> calculateNameScore(Chars(lines[i]))]
IdScores(lines) == [i \in 1..Len(lines) |-> calculateIdScore(Chars(lines[i]))]

NameScoreAbove(lines, threshold) ==
    \E l \in Range(lines) : DLt(threshold, calculateNameScore(Chars(l)))

IdScoreAbove(lines, threshold) ==
    \E l \in Range(lines) : DLt(threshold, calculateIdScore(Chars(l)))

IsAlnum(c) == c \in Alnum

(* The meaningful lines joined with spaces *)
AllText(lines) == join([i \in 1..Len(lines) |-> Chars(lines[i])], <<" ">>)

(* The raw line is dropped by the noise filter *)
Filtered(line) ==
    isHeaderOrNoise(cleanLineOf(Chars(line)), toUpperCase(cleanLineOf(Chars(line))))

(* C1: extractIDCardText and extractLicensePlate never raise to their caller:
   whatever the OCR engine call does (text, empty text, a result without
   text, a throw), the call resolves to a result object, and after a failure
   that object is exactly {} and the error was logged. *)
C1_NeverRaises ==
    /\ pc \in {"idle", "awaiting", "returned"}
    /\ pc = "returned" =>
        /\ fn = "extractIDCardText" => DOMAIN result \subseteq {"name", "idNumber", "address", "city"}
        /\ fn = "extractLicensePlate" => DOMAIN result \subseteq {"plateNumber"}
        /\ ocr.kind \in {"throw", "notext"} => result = EmptyObject /\ console

C1_Witness ==
    /\ pc = "returned"
    /\ fn = "extractIDCardText"
    /\ ocr.kind = "throw"
    /\ result = EmptyObject

(* C2: name and idNumber never bind to the same source line: when a single
   meaningful line is the only candidate for both fields and the name is
   reported, idNumber is absent from the result. *)
C2_NameLineNotIdLine ==
    IdDone /\ Len(frame.meaningfulLines) = 1 /\ Has(result, "name") => ~Has(result, "idNumber")

(* C3, as stated: name is populated only if some meaningful line has a name
   score above 0.7, idNumber only if some meaningful line has an ID score
   above 0.6; otherwise the field is absent from the result. *)
C3_OnlyAboveThreshold ==
    IdDone =>
        /\ Has(result, "name") => NameScoreAbove(frame.meaningfulLines, P7)
        /\ Has(result, "idNumber") => IdScoreAbove(frame.meaningfulLines, P6)

(* C3, amended: the scoring stage populates name only if some meaningful line
   has a name score above 0.7 and idNumber only if some meaningful line has
   an ID score above 0.6; in the result a field is present only if a line
   clears its threshold or the field's fallback pattern matches the
   space-joined meaningful lines. *)
C3_ThresholdOrFallback ==
    IdDone =>
        /\ Has(frame.scored, "name") => NameScoreAbove(frame.meaningfulLines, P7)
        /\ Has(frame.scored, "idNumber") => IdScoreAbove(frame.meaningfulLines, P6)
        /\ (Has(result, "name") /\ ~Has(frame.scored, "name")) =>
            test(namePattern, AllText(frame.meaningfulLines))
        /\ (Has(result, "idNumber") /\ ~Has(frame.scored, "idNumber")) =>
            test(idPattern, AllText(frame.meaningfulLines))

C3_Witness ==
    /\ IdDone
    /\ Has(result, "name")
    /\ ~Has(frame.scored, "name")
    /\ ~NameScoreAbove(frame.meaningfulLines, P7)
    /\ Has(frame.scored, "idNumber")

(* C4: a raw line that is a bare date D{1,2}/D{1,2}/DDDD contributes no
   element to the meaningful lines: they are at most as many as the other
   raw lines, and no date line is among them. *)
C4_DatesFiltered ==
    IdDone =>
        LET dates == {i \in 1..Len(frame.lines) : test(datePattern, Chars(frame.lines[i]))}
        IN  /\ Len(frame.meaningfulLines) <= Len(frame.lines) - Cardinality(dates)
            /\ \A i \in dates : frame.lines[i] \notin Range(frame.meaningfulLines)

(* Number of uppercase letters and digits of a string *)
CountUpperDigit(s) == Cardinality({i \in 1..Len(s) : Chars(s)[i] \in Upper \cup Digit})

(* C5, as stated: a text in which no run of consecutive alphanumeric
   characters has length 3 or more yields {} from extractLicensePlate. *)
C5_NoRunNoPlate ==
    PlateDone /\ ~test(<<In(Alnum, 3, 3)>>, Chars(ocr.text)) => result = EmptyObject

(* C5, amended: a text in which no line holds 3 or more uppercase letters
   and digits, and which holds fewer than 4 of them in all, yields {}. *)
C5_FewUpperDigitsNoPlate ==
    PlateDone /\ (\A l \in Range(frame.lines) : CountUpperDigit(l) <= 2)
              /\ CountUpperDigit(ocr.text) <= 3
        => result = EmptyObject

C5_Witness ==
    /\ PlateDone
    /\ Len(frame.lines) = 2
    /\ \A l \in Range(frame.lines) : CountUpperDigit(l) <= 2
    /\ CountUpperDigit(ocr.text) = 3
    /\ result = EmptyObject

(* C6: when idNumber is set by scoring, its value is the chosen line with
   exactly its non-alphanumeric characters removed: every letter of either
   case and every digit is kept, in order. *)
C6_IdKeepsAlnum ==
    IdDone /\ frame.bestIdCandidate # "" =>
        /\ Has(frame.scored, "idNumber")
        /\ frame.scored.idNumber = Str(SelectSeq(Chars(frame.bestIdCandidate), IsAlnum))

(* C7: for every input string, the empty string and strings without letter
   or digit included, each scorer returns a value v with 0 <= v <= 1. *)
C7_ScoreBounds ==
    probe.fn # "none" => DLe(Zero, probe.score) /\ DLe(probe.score, One)

C7_Witness ==
    /\ probe.fn = "calculateIdScore"
    /\ probe.line = "A1B2C3D4E5"
    /\ probe.score = One

(* A line of 2 to 4 capitalized all-letter words of total length 5 to 40 *)
IsCapitalizedWord(w) == test(<<Bol, In(Upper, 1, 1), In(Lower, 0, -1), Eol>>, w)

AreNameWords(words) ==
    /\ Len(words) >= 2 /\ Len(words) <= 4
    /\ \A w \in Range(words) : IsCapitalizedWord(w)

IsNameLine(line) ==
    /\ Len(line) >= 5 /\ Len(line) <= 40
    /\ AreNameWords(wordsOf(Chars(line)))

OthersFiltered(lines, i) == \A j \in 1..Len(lines) : j # i => Filtered(lines[j])

(* The reported name is the collapsed, trimmed text of a meaningful line
   whose name score is maximal over all meaningful lines *)
NameIsOfBest(lines, score) ==
    (\E i \in DOMAIN score : DLt(P7, score[i])) =>
        /\ Has(result, "name")
        /\ \E i \in DOMAIN score :
            /\ result.name = Str(formatName(Chars(lines[i])))
            /\ \A j \in DOMAIN score : DLe(score[j], score[i])

NameIsOfBestLine ==
    \A score \in {NameScores(frame.meaningfulLines)} : NameIsOfBest(frame.meaningfulLines, score)

(* C8, as stated: whenever a meaningful line has a name score above 0.7 the
   reported name is that of a best-scoring meaningful line; a line of 2 to 4
   capitalized all-letter words of length 5 to 40 surrounded only by filtered
   boilerplate is reported as name unchanged. *)
C8_BestNameReported ==
    IdDone =>
        /\ NameIsOfBestLine
        /\ \A i \in 1..Len(frame.lines) :
            IsNameLine(frame.lines[i]) /\ OthersFiltered(frame.lines, i)
                => Has(result, "name") /\ result.name = frame.lines[i]

(* C8, amended: the same, for a line of capitalized words that holds none of
   the header keywords (so that the noise filter keeps it); it is reported
   with each run of whitespace collapsed to one space. *)
C8_BestNameReportedIfKept ==
    IdDone =>
        /\ NameIsOfBestLine
        /\ \A i \in 1..Len(frame.lines) :
            ( /\ IsNameLine(frame.lines[i])
              /\ \A kw \in headerKeywords : ~includes(toUpperCase(Chars(frame.lines[i])), kw)
              /\ OthersFiltered(frame.lines, i) )
            => Has(result, "name") /\ result.name = Str(formatName(Chars(frame.lines[i])))

C8_Witness ==
    /\ IdDone
    /\ frame.lines = <<"REPUBLIC OF EXAMPLAND", "John Michael Smith">>
    /\ result = [name |-> "John Michael Smith"]

(* A line of uppercase letters and digits, at least one of each, of length
   6 to 15 *)
IsUpperDigitId(line) ==
    /\ Len(line) >= 6 /\ Len(line) <= 15
    /\ \A c \in Range(Chars(line)) : c \in Upper \cup Digit
    /\ \E c \in Range(Chars(line)) : c \in Upper
    /\ \E c \in Range(Chars(line)) : c \in Digit

(* C9: when such a line survives the noise filter and every other line is
   removed by it, idNumber is that line unchanged and the line is not
   reported as name. *)
C9_IdLineReported ==
    IdDone =>
        \A i \in 1..Len(frame.lines) :
            ( /\ IsUpperDigitId(frame.lines[i])
              /\ ~Filtered(frame.lines[i])
              /\ OthersFiltered(frame.lines, i) )
            => /\ Has(result, "idNumber")
               /\ result.idNumber = frame.lines[i]
               /\ Has(result, "name") => result.name # frame.lines[i]

C9_Witness ==
    /\ IdDone
    /\ frame.lines = <<"REPUBLIC OF EXAMPLAND", "A1B2C3D4E5">>
    /\ result = [idNumber |-> "A1B2C3D4E5"]

(* C10: when the OCR text is a single line of 2 to 3 uppercase letters, an
   optional single space or hyphen and 2 to 4 digits, plateNumber is that line
   with its whitespace removed (a hyphen is kept). *)
IsSpace(c) == c \in Space

C10_PlateLineReported ==
    PlateDone /\ test(<<Bol, In(Upper, 2, 3), In({" ", "-"}, 0, 1), In(Digit, 2, 4), Eol>>,
                      Chars(ocr.text))
        => /\ Has(result, "plateNumber")
           /\ result.plateNumber = Str(SelectSeq(Chars(ocr.text), LAMBDA c : ~IsSpace(c)))

C10_Witness ==
    /\ PlateDone
    /\ ocr.text = "ABC 1234"
    /\ result = [plateNumber |-> "ABC1234"]

(* The matches of the name fallback pattern in the space-joined meaningful
   lines, in the order of the text *)
NameMatches == match(AllText(frame.meaningfulLines), namePattern)

FirstMatchIsName(matches) ==
    matches # <<>> => (Has(result, "name") /\ result.name = Str(matches[1]))

(* C11: when no meaningful line has a name score above 0.7 but the
   space-joined meaningful lines hold two or three consecutive capitalized
   words, name is populated with the first such match. *)
C11_FallbackName ==
    (IdDone /\ ~NameScoreAbove(frame.meaningfulLines, P7)) =>
        \A matches \in {NameMatches} : FirstMatchIsName(matches)

C11_Witness ==
    /\ IdDone
    /\ ~NameScoreAbove(frame.meaningfulLines, P7)
    /\ Len(frame.meaningfulLines) = 2
    /\ Len(NameMatches) = 2
    /\ NameMatches[1] # NameMatches[2]
    /\ result.name = Str(NameMatches[1])

(* C12: for empty OCR text, and whenever the line sequence handed to scoring
   is empty, both functions return {} and do not throw. *)
C12_EmptyGivesEmpty ==
    /\ (pc = "returned" /\ ocr.kind = "text" /\ ocr.text = "") =>
            (result = EmptyObject /\ ~console)
    /\ (IdDone /\ frame.meaningfulLines = <<>>) => (result = EmptyObject /\ ~console)
    /\ (PlateDone /\ frame.lines = <<>>) => (result = EmptyObject /\ ~console)

C12_Witness ==
    /\ IdDone
    /\ ocr.text = ""
    /\ frame.lines = <<>>
    /\ result = EmptyObject

(* C13: no meaningful line contains, compared case-insensitively, any of the
   14 boilerplate keywords; "REPUBLIC OF EXAMPLAND" is never one of them. *)
C13_NoKeywordInMeaningfulLines ==
    IdDone =>
        /\ \A l \in Range(frame.meaningfulLines) :
            \A kw \in headerKeywords : ~includes(toUpperCase(Chars(l)), kw)
        /\ "REPUBLIC OF EXAMPLAND" \notin Range(frame.meaningfulLines)

C13_Witness ==
    /\ IdDone
    /\ frame.lines = <<"Sex: M", "John Michael Smith">>
    /\ frame.meaningfulLines = <<"John Michael Smith">>

(* C14: every character of every meaningful line is an ASCII letter, a digit,
   a space, a hyphen or a period. *)
C14_MeaningfulLineCharacters ==
    IdDone =>
        \A l \in Range(frame.meaningfulLines) :
            \A c \in Range(Chars(l)) : c \in Letter \cup Digit \cup {" ", "-", "."}

(* C19: the fallback runs only when name or idNumber is unset after scoring,
   and a field that scoring has set is in the result unchanged, whether or
   not the fallback runs for the other field. *)
C19_FallbackKeepsScoredFields ==
    IdDone =>
        /\ \A f \in {"name", "idNumber"} :
            Has(frame.scored, f) => (Has(result, f) /\ result[f] = frame.scored[f])
        /\ (Has(frame.scored, "name") /\ Has(frame.scored, "idNumber")) => result = frame.scored
        /\ Has(frame.scored, "name") <=> frame.bestNameCandidate # ""
        /\ Has(frame.scored, "idNumber") <=> frame.bestIdCandidate # ""

C19_Witness ==
    /\ IdDone
    /\ Has(frame.scored, "name")
    /\ ~Has(frame.scored, "idNumber")
    /\ Has(result, "idNumber")
    /\ Len(NameMatches) > 0
    /\ Str(NameMatches[1]) # frame.scored.name
    /\ result.name = frame.scored.name

(* The matches of every template in every line, after the line's cleaning *)
TemplateMatches(lines) ==
    [i \in 1..Len(lines), k \in 1..Len(platePatterns) |->
        match(plateCleanLine(Chars(lines[i])), platePatterns[k])]

(* Every template match of the text: <<line, template, match>> -> its text *)
PlateMatches(tm) ==
    [x \in UNION {{<<ik[1], ik[2], m>> : m \in 1..Len(tm[ik])} : ik \in DOMAIN tm} |->
        tm[<<x[1], x[2]>>][x[3]]]

AnyPlateMatch(lines) ==
    \E i \in 1..Len(lines), k \in 1..Len(platePatterns) :
        test(platePatterns[k], plateCleanLine(Chars(lines[i])))

(* x is found before y: lines in source order, templates in priority order,
   matches in the order of the line *)
FoundBefore(x, y) ==
    \/ x[1] < y[1]
    \/ x[1] = y[1] /\ x[2] < y[2]
    \/ x[1] = y[1] /\ x[2] = y[2] /\ x[3] < y[3]

(* The plate scores of the matches *)
MatchScores(text) == [x \in DOMAIN text |-> calculatePlateScore(text[x])]

(* x is the first found among the matches of highest plate score *)
IsFirstBest(x, score) ==
    \A y \in DOMAIN score :
        /\ DLe(score[y], score[x])
        /\ FoundBefore(y, x) => DLt(score[y], score[x])

FirstBestOf(text, score) == CHOOSE x \in DOMAIN text : IsFirstBest(x, score)

PlateOfFirstBest(text) ==
    text # <<>> =>
        \A score \in {MatchScores(text)} :
            result = [plateNumber |-> Str(formatPlate(text[FirstBestOf(text, score)]))]

(* C16: when some line yields a template match, the plate returned is, after
   normalization, the match of highest plate score over all lines and all five
   templates, and among matches of equal top score the first found. *)
C16_BestPlateMatch ==
    PlateDone =>
        \A text \in {PlateMatches(TemplateMatches(frame.lines))} : PlateOfFirstBest(text)

C16_Witness ==
    /\ PlateDone
    /\ ocr.text = "12AB AB12"
    /\ result = [plateNumber |-> "AB12"]

HasDoubleHyphen(s) == \E i \in 1..(Len(s) - 1) : SubSeq(s, i, i + 1) = "--"

(* C17: every plateNumber returned, from a template match or from the
   fallback, is non-empty and holds no whitespace character and no two
   consecutive hyphens. *)
C17_PlateNumberNormalized ==
    (pc = "returned" /\ Has(result, "plateNumber")) =>
        /\ result.plateNumber # ""
        /\ \A c \in Range(Chars(result.plateNumber)) : ~IsSpace(c)
        /\ ~HasDoubleHyphen(result.plateNumber)

C17_Witness ==
    /\ PlateDone
    /\ \E c \in Range(Chars(frame.bestPlateCandidate)) : IsSpace(c)
    /\ Has(result, "plateNumber")
    /\ Len(result.plateNumber) = Len(frame.bestPlateCandidate) - 1

(* The lines joined with spaces and stripped to uppercase letters and digits *)
PlateAllText(lines) ==
    SelectSeq(join([i \in 1..Len(lines) |-> Chars(lines[i])], <<" ">>),
              LAMBDA c : c \in Upper \cup Digit)

FallbackAccepts(allText) ==
    Len(allText) >= 4 /\ Len(allText) <= 10 /\ DLt(P5, calculatePlateScore(allText))

(* C18: the plate fallback is used only when no line produced a template
   match, and its text is then the plateNumber only if its length is between
   4 and 10 and its plate score is above 0.5; otherwise the result is {}. *)
C18_PlateFallback ==
    PlateDone =>
        /\ (frame.matched = "") <=> ~AnyPlateMatch(frame.lines)
        /\ frame.matched # "" => frame.bestPlateCandidate = frame.matched
        /\ frame.matched = "" =>
            \A allText \in {PlateAllText(frame.lines)} :
                IF FallbackAccepts(allText)
                THEN result = [plateNumber |-> Str(allText)]
                ELSE result = EmptyObject

C18_Witness ==
    /\ PlateDone
    /\ frame.matched = ""
    /\ Len(frame.lines) = 2
    /\ Has(result, "plateNumber")

(* Two calls of the same function that have returned on equal OCR text *)
SameTextReturned(c, d) ==
    /\ calls[c].pc = "returned" /\ calls[d].pc = "returned"
    /\ calls[c].fn = calls[d].fn
    /\ calls[c].ocr.kind = "text" /\ calls[d].ocr.kind = "text"
    /\ calls[c].ocr.text = calls[d].ocr.text

(* C15: the result of an extraction call is a function of that call's OCR
   text alone: two calls of the same function whose OCR text is equal return
   equal results, however their completions interleave with each other and
   with other calls. *)
C15_ResultDependsOnTextOnly ==
    \A c, d \in DOMAIN calls : SameTextReturned(c, d) => calls[c].result = calls[d].result

C15_Witness ==
    /\ SameTextReturned(1, 3)
    /\ calls[1].result = EmptyObject
    /\ calls[2].pc = "returned"
    /\ calls[2].fn = calls[1].fn
    /\ calls[2].result # EmptyObject

(* C20: after a capture has been processed, each form field the extraction
   can fill whose value is absent from that capture's result is blank unless
   the user typed into it: no field holds a value that came only from an
   earlier capture. *)
C20_NoStaleCaptureValue ==
    (modal.kind # "none" /\ modal.processed /\ ~modal.isProcessingOCR) =>
        \A field \in DOMAIN modal.form :
            (~Has(modal.extracted, field) /\ field \notin modal.typed)
                => modal.form[field] = ""

(* ------------------------------------------------------------------ *)
(* Line order and the scoring loops                                     *)

LineOrders(n) == {p \in [1..n -> 1..n] : \A i, j \in 1..n : p[i] = p[j] => i = j}
Permuted(lines, p) == [i \in 1..Len(lines) |-> Chars(lines[p[i]])]

(* The candidates the two scoring loops keep on the lines in another order *)
SelectedId(lines, bestName) == Str(idLoop(lines, bestName.line, NoCandidate).line)
SameSelection(lines, bestName) ==
    /\ Str(bestName.line) = frame.bestNameCandidate
    /\ SelectedId(lines, bestName) = frame.bestIdCandidate
SameSelectionOn(lines) == SameSelection(lines, nameLoop(lines, NoCandidate))

(* The positions of the lines that differ from the line to skip *)
OtherThan(lines, skip) == {i \in DOMAIN lines : lines[i] # skip}

(* Two different lines among those positions share the best score above the
   threshold *)
Tied(lines, score, among, threshold) ==
    \E i, j \in among :
        /\ lines[i] # lines[j]
        /\ DLt(threshold, score[i]) /\ DLe(score[i], score[j]) /\ DLe(score[j], score[i])
        /\ \A k \in among : DLe(score[k], score[i])

(* The candidate is the earliest of the lines at those positions with the
   best score above the threshold, or empty when none is above it *)
IsEarliestBest(cand, lines, score, among, threshold) ==
    IF \E i \in among : DLt(threshold, score[i])
    THEN \E i \in among :
            /\ cand = lines[i]
            /\ DLt(threshold, score[i])
            /\ \A k \in among : DLe(score[k], score[i])
            /\ \A k \in among : k < i => DLt(score[k], score[i])
    ELSE cand = ""

(* A scoring loop run over the lines in the order p, from position i on,
   with the scores the lines have; the candidate is kept by its position *)
RECURSIVE Kept(_, _, _, _, _, _, _)
Kept(lines, score, p, i, skip, threshold, best) ==
    IF i > Len(lines) THEN best
    ELSE Kept(lines, score, p, i + 1, skip, threshold,
              IF lines[p[i]] = skip THEN best
              ELSE better(best, p[i], score[p[i]], threshold))

LineAt(lines, best) == IF best.line = 0 THEN "" ELSE lines[best.line]

(* The loops over the lines in the order p keep the candidates of the call *)
SameKept(lines, nameScore, idScore, p) ==
    /\ LineAt(lines, Kept(lines, nameScore, p, 1, "", P7, [line |-> 0, score |-> Zero]))
           = frame.bestNameCandidate
    /\ LineAt(lines, Kept(lines, idScore, p, 1, frame.bestNameCandidate, P6,
                          [line |-> 0, score |-> Zero]))
           = frame.bestIdCandidate

OrderBreaksTiesOnly(lines, nameScore, idScore, others) ==
    /\ IsEarliestBest(frame.bestNameCandidate, lines, nameScore, DOMAIN lines, P7)
    /\ IsEarliestBest(frame.bestIdCandidate, lines, idScore, others, P6)
    /\ (~Tied(lines, nameScore, DOMAIN lines, P7) /\ ~Tied(lines, idScore, others, P6))
           => \A p \in LineOrders(Len(lines)) : SameKept(lines, nameScore, idScore, p)

(* C23, as stated: for every permutation of the meaningful lines the two
   scoring loops select the same name candidate and the same ID candidate. *)
C23_OrderNotUsed ==
    IdDone => \A p \in LineOrders(Len(frame.meaningfulLines)) :
                  SameSelectionOn(Permuted(frame.meaningfulLines, p))

(* C23, amended: the name candidate is the earliest meaningful line with the
   best name score above 0.7 and the ID candidate the earliest line, other
   than the name candidate, with the best ID score above 0.6; the loops run
   over a permutation of the lines keep the same two candidates whenever no
   two different lines share the best name score and no two different lines
   other than the name candidate share the best ID score. *)
C23_OrderBreaksTiesOnly ==
    IdDone =>
        \A nameScore \in {NameScores(frame.meaningfulLines)} :
            \A idScore \in {IdScores(frame.meaningfulLines)} :
                OrderBreaksTiesOnly(frame.meaningfulLines, nameScore, idScore,
                                    OtherThan(frame.meaningfulLines, frame.bestNameCandidate))

C23_Witness ==
    /\ IdDone
    /\ frame.meaningfulLines = <<"A1B2C3D4E5", "John Michael Smith">>
    /\ frame.bestNameCandidate = "John Michael Smith"
    /\ frame.bestIdCandidate = "A1B2C3D4E5"

(* ------------------------------------------------------------------ *)
(* The shape of the reported fields                                     *)

(* C24: a meaningful line of a single word is never chosen as the name by
   scoring: the candidate the name loop keeps, when there is one, has at
   least two words. *)
C24_SingleWordNotName ==
    (IdDone /\ frame.bestNameCandidate # "") =>
        Len(wordsOf(Chars(frame.bestNameCandidate))) >= 2

HasDoubleSpace(s) == \E i \in 1..(Len(s) - 1) : IsSpace(s[i]) /\ IsSpace(s[i + 1])

(* C25: a name returned by extractIDCardText, by scoring or by fallback, has
   no leading or trailing whitespace and no two consecutive whitespace
   characters. *)
C25_NameNormalized ==
    (IdDone /\ Has(result, "name")) =>
        /\ trim(Chars(result.name)) = Chars(result.name)
        /\ ~HasDoubleSpace(Chars(result.name))

(* C26: an idNumber returned by extractIDCardText, by scoring or by fallback,
   is non-empty and holds at least one digit. *)
C26_IdNumberHasDigit ==
    (IdDone /\ Has(result, "idNumber")) =>
        /\ result.idNumber # ""
        /\ \E c \in Range(Chars(result.idNumber)) : c \in Digit

(* C27: the result of extractLicensePlate equals its result on the same text
   with all letters uppercased. *)
C27_PlateCaseInsensitive ==
    PlateDone =>
        result = extractLicensePlateBody(Str(toUpperCase(Chars(ocr.text)))).extractedData

(* ------------------------------------------------------------------ *)
(* The server: audit trail, access, deactivation, exits                 *)

ServerUp == server.kind = "server"

(* The tables that hold registrations, with the type their log entries carry *)
Registers == {<<"visitors", "visitor">>, <<"vehicles", "vehicle">>}

(* The positions of the log entries of one action for one record *)
LogsOf(srv, type, id, action) ==
    {i \in DOMAIN srv.activityLogs :
        /\ srv.activityLogs[i].type = type
        /\ srv.activityLogs[i].entityId = id
        /\ srv.activityLogs[i].action = action}

(* C21: the activity log is a complete audit trail: every stored visitor or
   vehicle has an ENTRY log entry, and every one with status OUT has an EXIT
   log entry, also after a request that failed part-way. *)
C21_AuditTrailComplete ==
    ServerUp =>
        \A r \in Registers : \A id \in DOMAIN server[r[1]] :
            /\ LogsOf(server, r[2], id, "ENTRY") # {}
            /\ server[r[1]][id].status = "OUT" => LogsOf(server, r[2], id, "EXIT") # {}

(* C22: a logged-in user who requests the activity logs is answered with the
   log list, not with 401 or 403, whatever the user's role. *)
C22_LogsForEveryUser ==
    (ServerUp /\ server.response.route = "/api/logs" /\ server.response.userId # 0) =>
        server.response.status \notin {401, 403}

(* C28: no request made for a deactivated user succeeds: not a login with the
   right password, and not a request to any authenticated route on a session
   the user opened before the deactivation. *)
C28_DeactivatedUserRejected ==
    ( /\ ServerUp
      /\ server.response.route \notin {"none", "/api/auth/logout"}
      /\ server.response.userId # 0
      /\ ~server.users[server.response.userId].isActive )
    => server.response.status # 200

(* C29: marking an exit is idempotent: an exit request for a record that is
   already OUT leaves the record, its exitTime included, and its EXIT log
   entries as the first exit left them, and no EXIT log entry names a record
   that does not exist. *)
C29_ExitIdempotent ==
    [][ServerUp =>
        \A r \in Registers :
            /\ \A id \in DOMAIN server[r[1]] :
                server[r[1]][id].status = "OUT" =>
                    /\ server'[r[1]][id] = server[r[1]][id]
                    /\ LogsOf(server', r[2], id, "EXIT") = LogsOf(server, r[2], id, "EXIT")
            /\ \A i \in DOMAIN server'.activityLogs :
                server'.activityLogs[i].type = r[2] =>
                    server'.activityLogs[i].entityId \in DOMAIN server'[r[1]]]_vars

(* ------------------------------------------------------------------ *)
(* The camera streams                                                   *)

LiveStreams == {i \in DOMAIN camera.streams : camera.streams[i]}

(* C30: the hook never leaks a camera stream: once the component has
   unmounted or shows the captured image (stopCamera has run) and no
   startCamera call is pending, no acquired stream has live tracks; and at
   most one acquired stream is live at any time. *)
C30_NoStreamLeak ==
    camera.kind = "camera" =>
        /\ (camera.pending = 0 /\ (~camera.mounted \/ camera.capturedImage)) => LiveStreams = {}
        /\ Cardinality(LiveStreams) <= 1

====
